---------------------------- MODULE Spec2Model ----------------------------
(***************************************************************************)
(* Model of daily_digest.py: the fetch -> assemble -> summarize -> format  *)
(* -> send pipeline of one process run.                                    *)
(*                                                                         *)
(* Text is kept run-length encoded: a string is a sequence of runs         *)
(* <<c, n>> (n >= 1 copies of character class c), adjacent runs having     *)
(* different classes.  "nl" is the newline character; every other class    *)
(* stands for a non-newline character.  Lengths are exact, so the real     *)
(* limits (4096, 3500, 50) are used unscaled.                              *)
(***************************************************************************)
EXTENDS Integers, Sequences, FiniteSets, TLC

VARIABLES
    ANTHROPIC_API_KEY,  \* module configuration, read once from the environment
    OPENAI_API_KEY,
    BOT_TOKEN,
    CHAT_ID,
    DIGEST_TOPICS,
    argv,               \* sys.argv[1:]
    pc,                 \* position of the run
    dry_run,            \* main's local
    sections,           \* build_raw_briefing's local list
    raw_text,           \* main's locals (Optional values)
    summary,
    message,
    text,               \* send_telegram's locals
    chunks,
    idx,                \* position of the for loop over chunks
    success,
    ret_to,             \* where send_telegram returns to
    sent_ok,            \* value returned by the last send_telegram call
    net,                \* every outbound request made so far, in order
    stdout,             \* what main printed (Optional)
    exit_code,          \* Optional: the process exit status
    uncaught,           \* TRUE when the run died of an uncaught exception
    orig,               \* ghost: the argument of the current send_telegram call
    gaps,               \* ghost: number of characters lstrip removed per split
    faults              \* ghost: malformed provider responses received so far

vars == <<ANTHROPIC_API_KEY, OPENAI_API_KEY, BOT_TOKEN, CHAT_ID, DIGEST_TOPICS,
          argv, pc, dry_run, sections, raw_text, summary, message, text, chunks,
          idx, success, ret_to, sent_ok, net, stdout, exit_code, uncaught,
          orig, gaps, faults>>

(***************************************************************************)
(* Bounds of the model.                                                    *)
(***************************************************************************)
\* longest input of send_telegram, in runs
MaxRuns == 3
\* how far around each limit the enumerated lengths go
MaxSmall == 1
\* longest provider list that is enumerated
MaxCoins == 1
\* most provider responses of one run that deviate from the documented shape
MaxFaults == 1

(***************************************************************************)
(* Strings.                                                                *)
(***************************************************************************)
NL == "nl"

\* the string of n copies of c
Str(c, n) == IF n <= 0 THEN <<>> ELSE << <<c, n>> >>

RECURSIVE Len_(_)
Len_(s) == IF s = <<>> THEN 0 ELSE Head(s)[2] + Len_(Tail(s))

\* s + t
Cat(s, t) ==
    IF s = <<>> THEN t
    ELSE IF t = <<>> THEN s
    ELSE IF s[Len(s)][1] = t[1][1]
         THEN SubSeq(s, 1, Len(s) - 1)
                \o << <<t[1][1], s[Len(s)][2] + t[1][2]>> >>
                \o Tail(t)
         ELSE s \o t

RECURSIVE CatAll(_)
CatAll(ss) == IF ss = <<>> THEN <<>> ELSE Cat(Head(ss), CatAll(Tail(ss)))

\* s[:n], n >= 0
RECURSIVE Take(_, _)
Take(s, n) ==
    IF n <= 0 \/ s = <<>> THEN <<>>
    ELSE IF Head(s)[2] >= n THEN << <<Head(s)[1], n>> >>
    ELSE <<Head(s)>> \o Take(Tail(s), n - Head(s)[2])

\* s[n:], n >= 0
RECURSIVE Drop(_, _)
Drop(s, n) ==
    IF s = <<>> THEN <<>>
    ELSE IF n <= 0 THEN s
    ELSE IF Head(s)[2] > n THEN << <<Head(s)[1], Head(s)[2] - n>> >> \o Tail(s)
    ELSE Drop(Tail(s), n - Head(s)[2])

\* index of the last newline of a whole string, -1 when it has none
RECURSIVE LastNL(_)
LastNL(s) ==
    IF s = <<>> THEN -1
    ELSE IF s[Len(s)][1] = NL THEN Len_(s) - 1
    ELSE LastNL(SubSeq(s, 1, Len(s) - 1))

\* s.rfind("\n", 0, end)
RFindNL(s, end) == LastNL(Take(s, end))

LStripNL_Greedy(s) == IF s = <<>> THEN s ELSE Drop(s, 1)

\* s.lstrip("\n")
LStripNL(s) == IF s /= <<>> /\ Head(s)[1] = NL THEN Tail(s) ELSE s

\* Optional values
None == [is_none |-> TRUE, val |-> <<>>]
Some(v) == [is_none |-> FALSE, val |-> v]

(***************************************************************************)
(* send_telegram.                                                          *)
(***************************************************************************)
max_len == 4096

TELEGRAM == "api.telegram.org"

SplitAt_CutOneLate(t) ==
    LET r == RFindNL(t, max_len)
    IN  IF r < max_len \div 2 THEN max_len + 1 ELSE r

\* the split point of one iteration of the while loop (len(text) > max_len)
SplitAt(t) ==
    LET r == RFindNL(t, max_len)
    IN  IF r < max_len \div 2 THEN max_len ELSE r

\* the credentials guard and the setup of the split loop
st_enter ==
    /\ pc = "st_enter"
    /\ IF BOT_TOKEN = "" \/ CHAT_ID = ""
       THEN /\ sent_ok' = FALSE
            /\ pc' = ret_to
            /\ UNCHANGED chunks
       ELSE /\ chunks' = <<>>
            /\ pc' = "st_split"
            /\ UNCHANGED sent_ok
    /\ UNCHANGED <<ANTHROPIC_API_KEY, OPENAI_API_KEY, BOT_TOKEN, CHAT_ID,
                   DIGEST_TOPICS, argv, dry_run, sections, raw_text, summary,
                   message, text, idx, success, ret_to, net, stdout, exit_code,
                   uncaught, orig, gaps, faults>>

\* one test of "while text" and the iteration it starts
st_split ==
    /\ pc = "st_split"
    /\ IF text = <<>>
       THEN /\ pc' = "st_post"
            /\ idx' = 1
            /\ success' = TRUE
            /\ UNCHANGED <<text, chunks, gaps>>
       ELSE IF Len_(text) <= max_len
       THEN /\ chunks' = Append(chunks, text)
            /\ pc' = "st_post"
            /\ idx' = 1
            /\ success' = TRUE
            /\ UNCHANGED <<text, gaps>>
       ELSE LET split_at == SplitAt(text)
                rest == Drop(text, split_at)
            IN  /\ chunks' = Append(chunks, Take(text, split_at))
                /\ text' = LStripNL(rest)
                /\ gaps' = Append(gaps, Len_(rest) - Len_(LStripNL(rest)))
                /\ UNCHANGED <<pc, idx, success>>
    /\ UNCHANGED <<ANTHROPIC_API_KEY, OPENAI_API_KEY, BOT_TOKEN, CHAT_ID,
                   DIGEST_TOPICS, argv, dry_run, sections, raw_text, summary,
                   message, ret_to, sent_ok, net, stdout, exit_code, uncaught,
                   orig, faults>>

\* what one POST to sendMessage can end in: the response reports ok, the
\* response does not, or urlopen / decoding raises
PostOutcomes == {"ok", "not_ok", "exception"}

SuccessAfter_LastWins(s, outcome) == outcome = "ok"

\* the value of success after one iteration of the for loop
SuccessAfter(s, outcome) == IF outcome = "ok" THEN s ELSE FALSE

\* one iteration of "for chunk in chunks"
st_post ==
    /\ pc = "st_post"
    /\ idx <= Len(chunks)
    /\ \E outcome \in PostOutcomes :
          /\ net' = Append(net, [host |-> TELEGRAM, text |-> chunks[idx],
                                 ok |-> outcome = "ok"])
          /\ success' = SuccessAfter(success, outcome)
    /\ idx' = idx + 1
    /\ UNCHANGED <<ANTHROPIC_API_KEY, OPENAI_API_KEY, BOT_TOKEN, CHAT_ID,
                   DIGEST_TOPICS, argv, pc, dry_run, sections, raw_text,
                   summary, message, text, chunks, ret_to, sent_ok, stdout,
                   exit_code, uncaught, orig, gaps, faults>>

\* "return success"
st_return ==
    /\ pc = "st_post"
    /\ idx > Len(chunks)
    /\ sent_ok' = success
    /\ pc' = ret_to
    /\ UNCHANGED <<ANTHROPIC_API_KEY, OPENAI_API_KEY, BOT_TOKEN, CHAT_ID,
                   DIGEST_TOPICS, argv, dry_run, sections, raw_text, summary,
                   message, text, chunks, idx, success, ret_to, net, stdout,
                   exit_code, uncaught, orig, gaps, faults>>

(***************************************************************************)
(* send_telegram on its own: every text, credentials set (main never       *)
(* reaches a call without them).                                           *)
(***************************************************************************)
RunLens ==
    (1 .. MaxSmall)
    \cup {max_len \div 2 + d : d \in -MaxSmall .. MaxSmall}
    \cup {max_len + d : d \in -MaxSmall .. MaxSmall}

Other(c) == IF c = NL THEN "a" ELSE NL

\* the string whose runs have the lengths lens, starting with class first
MkText(first, lens) ==
    [i \in 1 .. Len(lens) |->
        <<IF i % 2 = 1 THEN first ELSE Other(first), lens[i]>>]

Texts ==
    {<<>>} \cup
    {MkText(first, lens) :
        first \in {"a", NL},
        lens \in UNION {[1 .. k -> RunLens] : k \in 1 .. MaxRuns}}

InitSend ==
    /\ ANTHROPIC_API_KEY = ""
    /\ OPENAI_API_KEY = ""
    /\ BOT_TOKEN = "token"
    /\ CHAT_ID = "chat"
    /\ DIGEST_TOPICS = <<>>
    /\ argv = <<>>
    /\ pc = "st_enter"
    /\ dry_run = FALSE
    /\ sections = <<>>
    /\ raw_text = None
    /\ summary = None
    /\ message = None
    /\ text \in Texts
    /\ orig = text
    /\ chunks = <<>>
    /\ idx = 1
    /\ success = TRUE
    /\ ret_to = "returned"
    /\ sent_ok = FALSE
    /\ net = <<>>
    /\ stdout = None
    /\ exit_code = [exited |-> FALSE, code |-> 0]
    /\ uncaught = FALSE
    /\ gaps = <<>>
    /\ faults = 0

NextSend == st_enter \/ st_split \/ st_post \/ st_return

SpecSend == InitSend /\ [][NextSend]_vars

(***************************************************************************)
(* Properties of send_telegram (checked under SpecSend).                   *)
(***************************************************************************)
\* the split loop is over
SplitDone == pc \in {"st_post", "returned"}

\* the requests made to the Telegram endpoint, in order
Posts == SelectSeq(net, LAMBDA r : r.host = TELEGRAM)

\* C1: every chunk send_telegram builds, and every chunk it posts, is at most
\* 4096 characters long, whether it ends at a newline or at a hard cut.
C1_ChunksWithinMaxLen ==
    /\ \A i \in 1 .. Len(chunks) : Len_(chunks[i]) <= 4096
    /\ \A j \in 1 .. Len(Posts) : Len_(Posts[j].text) <= 4096

\* a run whose text was split both at a newline (a chunk shorter than the
\* window) and by a hard cut (a full window), every chunk posted
C1_Witness ==
    /\ pc = "returned"
    /\ Len(Posts) = Len(chunks)
    /\ \E i \in 1 .. Len(chunks) - 1 : Len_(chunks[i]) = 4096
    /\ \E i \in 1 .. Len(chunks) - 1 : Len_(chunks[i]) < 4096

\* chunks with the leading newlines of each removed
StripEach(cs) == [i \in 1 .. Len(cs) |-> LStripNL(cs[i])]

\* C2 as claimed: the chunks, concatenated in order (as they are, or with their
\* leading newlines stripped), are the original text.
C2_ConcatIsOriginal ==
    SplitDone => (CatAll(chunks) = orig \/ CatAll(StripEach(chunks)) = orig)

\* cs[1] + gs[1] newlines + cs[2] + gs[2] newlines + ...
RECURSIVE Interleave(_, _)
Interleave(cs, gs) ==
    IF cs = <<>> THEN <<>>
    ELSE IF gs = <<>> THEN Cat(Head(cs), Interleave(Tail(cs), <<>>))
    ELSE Cat(Head(cs), Cat(Str(NL, Head(gs)), Interleave(Tail(cs), Tail(gs))))

\* C2 amended: the chunks are consecutive pieces of the original text, and the
\* only characters splitting drops are the newlines that lstrip removes after a
\* split point: the chunks with those newline runs put back between them are
\* the original text.
C2_ConcatIsOriginalUpToStrippedNewlines ==
    SplitDone =>
        /\ Len(gaps) \in {Len(chunks) - 1, Len(chunks)} \cup {0}
        /\ Interleave(chunks, gaps) = orig

\* a text split in several chunks, newlines dropped at one split and nothing
\* dropped at another
C2_Witness ==
    /\ SplitDone
    /\ Len(chunks) >= 3
    /\ \E i \in 1 .. Len(gaps) : gaps[i] > 0
    /\ \E i \in 1 .. Len(gaps) : gaps[i] = 0

\* C8: the chunks are posted one after the other in their order, each exactly
\* once whatever became of the earlier ones, and send_telegram returns true
\* exactly when every post succeeded.
C8_AllChunksPostedInOrder ==
    /\ pc = "st_post" =>
          /\ Len(Posts) = idx - 1
          /\ \A i \in 1 .. Len(Posts) : Posts[i].text = chunks[i]
    /\ pc = "returned" =>
          /\ Len(Posts) = Len(chunks)
          /\ \A i \in 1 .. Len(chunks) : Posts[i].text = chunks[i]
          /\ sent_ok <=> \A i \in 1 .. Len(Posts) : Posts[i].ok

\* three chunks, the first post failed, the later ones were still made and
\* succeeded
C8_Witness ==
    /\ pc = "returned"
    /\ Len(chunks) >= 3
    /\ Len(Posts) = Len(chunks)
    /\ ~Posts[1].ok
    /\ \A i \in 2 .. Len(Posts) : Posts[i].ok
    /\ ~sent_ok

(***************************************************************************)
(* Provider responses.  A JSON value is modelled by its shape: what the    *)
(* code does with it depends on nothing else.                              *)
(*   "missing"  the key is absent                                          *)
(*   "null"     JSON null (None)                                           *)
(*   "num"      a number                                                   *)
(*   "str"      a string                                                   *)
(*   "dict"     a non-empty object                                         *)
(*   "wrong"    a value of another type than the documented one            *)
(* The evaluation of an expression on such a value is "raise", "default"   *)
(* (the fallback of .get was used) or "data".                              *)
(***************************************************************************)
COINGECKO == "api.coingecko.com"

\* d.get(k, 0) used in arithmetic or in a numeric format spec
EvalLeaf(shape) ==
    CASE shape = "missing" -> "default"
      [] shape = "num" -> "data"
      [] OTHER -> "raise"

\* d.get(k, {}).get(k2, 0) used in arithmetic or in a numeric format spec
EvalNested(outer, inner) ==
    CASE outer = "missing" -> "default"
      [] outer = "dict" -> EvalLeaf(inner)
      [] OTHER -> "raise"

\* a number as formatted text: w is the width of the formatted default
Num(e, w) == IF e = "default" THEN Str("z", w) ELSE Str("d", w + 2)

\* d.get(k, "?") interpolated in an f-string: "?", "None", or the value
TextVal(shape) ==
    CASE shape = "missing" -> Str("z", 1)
      [] shape = "null" -> Str("n", 4)
      [] OTHER -> Str("d", 6)

\* "\n".join(lines)
RECURSIVE Join(_)
Join(lines) ==
    IF lines = <<>> THEN <<>>
    ELSE IF Len(lines) = 1 THEN lines[1]
    ELSE Cat(lines[1], Cat(Str(NL, 1), Join(Tail(lines))))

\* whether a string has a character of class c
Has(s, c) == \E i \in 1 .. Len(s) : s[i][1] = c

\* the body of _http_get_json: None exactly when the request or the decoding
\* failed
HttpGetFailed(top) == top = "failed"

\* ---- /global ----
\* top: "failed" | "empty" (a falsy value) | "number" | "list" | "no_key" | "dict"
GoodGlobal ==
    [top |-> "dict", data |-> "dict",
     total_market_cap |-> "dict", cap_usd |-> "num",
     market_cap_change_percentage_24h_usd |-> "num",
     market_cap_percentage |-> "dict", btc |-> "num", eth |-> "num",
     total_volume |-> "dict", vol_usd |-> "num"]

FailedGlobal == [GoodGlobal EXCEPT !.top = "failed"]

GlobalFaults ==
    {<<"top", v>> : v \in {"empty", "number", "list", "no_key"}}
    \cup {<<"data", v>> : v \in {"null", "wrong"}}
    \cup {<<f, v>> : f \in {"total_market_cap", "market_cap_percentage",
                             "total_volume"},
                     v \in {"missing", "null", "wrong"}}
    \cup {<<f, v>> : f \in {"cap_usd", "market_cap_change_percentage_24h_usd",
                             "btc", "eth", "vol_usd"},
                     v \in {"missing", "null", "wrong"}}

GlobalResponses ==
    {GoodGlobal, FailedGlobal}
    \cup {[GoodGlobal EXCEPT ![fv[1]] = fv[2]] : fv \in GlobalFaults}

\* fetch_coingecko_global: "raise", "none", or the shape of data["data"]
fetch_coingecko_global(resp) ==
    CASE HttpGetFailed(resp.top) -> "none"
      [] resp.top = "empty" -> "none"
      [] resp.top = "number" -> "raise"
      [] resp.top \in {"list", "no_key"} -> "none"
      [] OTHER -> resp.data

\* the global-market section of build_raw_briefing: None when it raises
GlobalSection(resp) ==
    LET global_data == fetch_coingecko_global(resp)
        cap == EvalNested(resp.total_market_cap, resp.cap_usd)
        cap_change == EvalLeaf(resp.market_cap_change_percentage_24h_usd)
        btc_dom == EvalNested(resp.market_cap_percentage, resp.btc)
        eth_dom == EvalNested(resp.market_cap_percentage, resp.eth)
        vol == EvalNested(resp.total_volume, resp.vol_usd)
    IN  IF global_data = "raise" THEN None
        ELSE IF global_data \in {"none", "null"}
        THEN Some(Cat(Str("t", 20), Cat(Str("u", 11), Str(NL, 1))))
        ELSE IF global_data = "wrong" THEN None
        ELSE IF "raise" \in {cap, cap_change, btc_dom, eth_dom, vol} THEN None
        ELSE Some(Join(<<Str("t", 19),
                         CatAll(<<Str("t", 21), Num(cap, 3), Str("t", 3),
                                  Num(cap_change, 4), Str("t", 6)>>),
                         CatAll(<<Str("t", 17), Num(btc_dom, 3), Str("t", 1)>>),
                         CatAll(<<Str("t", 17), Num(eth_dom, 3), Str("t", 1)>>),
                         CatAll(<<Str("t", 15), Num(vol, 3), Str("t", 1)>>),
                         <<>> >>))

\* ---- /search/trending ----
GoodItem ==
    [self |-> "dict", item |-> "dict", name |-> "str", symbol |-> "str",
     market_cap_rank |-> "num", data |-> "dict",
     price_change_percentage_24h |-> "dict", usd |-> "num"]

ItemFaults ==
    {<<"self", v>> : v \in {"null", "wrong"}}
    \cup {<<f, v>> : f \in {"item", "data", "price_change_percentage_24h"},
                     v \in {"missing", "null", "wrong"}}
    \cup {<<f, v>> : f \in {"name", "symbol", "market_cap_rank", "usd"},
                     v \in {"missing", "null", "wrong"}}

Items == {GoodItem} \cup {[GoodItem EXCEPT ![fv[1]] = fv[2]] : fv \in ItemFaults}

\* lists of k entries, at most one of them not the good one
ListsOf(good, all) ==
    UNION {{[j \in 1 .. k |-> IF j = i THEN it ELSE good] :
                i \in 1 .. k, it \in all} : k \in 1 .. MaxCoins}

\* top: "failed" | "empty" | "number" | "no_key" | "dict";
\* coins: "null" | "empty" | "wrong" | "list"
GoodTrending == [top |-> "dict", coins |-> "list", list |-> <<GoodItem>>]

FailedTrending == [GoodTrending EXCEPT !.top = "failed"]

CleanTrending ==
    {FailedTrending}
    \cup {[GoodTrending EXCEPT !.list = [j \in 1 .. k |-> GoodItem]] :
             k \in 1 .. MaxCoins}

TrendingResponses ==
    CleanTrending
    \cup {[GoodTrending EXCEPT !.top = v] : v \in {"empty", "number", "no_key"}}
    \cup {[GoodTrending EXCEPT !.coins = v] : v \in {"null", "empty", "wrong"}}
    \cup {[GoodTrending EXCEPT !.list = l] : l \in ListsOf(GoodItem, Items)}

\* fetch_coingecko_trending: "raise", "none", or the shape of data["coins"]
fetch_coingecko_trending(resp) ==
    CASE HttpGetFailed(resp.top) -> "none"
      [] resp.top = "empty" -> "none"
      [] resp.top = "number" -> "raise"
      [] resp.top = "no_key" -> "none"
      [] OTHER -> resp.coins

\* the 24h change of one trending entry
ItemChange(it) ==
    IF it.item = "missing" THEN "default"
    ELSE IF it.data = "missing" THEN "default"
    ELSE IF it.data /= "dict" THEN "default"
    ELSE EvalNested(it.price_change_percentage_24h, it.usd)

\* whether the loop body raises on one trending entry
ItemRaises(it) ==
    \/ it.self /= "dict"
    \/ it.item \in {"null", "wrong"}
    \/ ItemChange(it) = "raise"

\* the key of an entry whose "item" is absent is absent as well
ItemField(it, f) == IF it.item = "missing" THEN "missing" ELSE it[f]

\* one line of the trending list
ItemLine(it) ==
    CatAll(<<Str("t", 5), TextVal(ItemField(it, "name")), Str("t", 2),
             TextVal(ItemField(it, "symbol")), Str("t", 10),
             TextVal(ItemField(it, "market_cap_rank")), Str("t", 8),
             Num(ItemChange(it), 4), Str("t", 1)>>)

\* the trending part of build_raw_briefing: the entries it appends to
\* sections, None when it raises
TrendingSections(resp) ==
    LET trending == fetch_coingecko_trending(resp)
    IN  IF trending = "raise" THEN None
        ELSE IF trending \in {"none", "null", "empty"}
        THEN Some(<<Cat(Str("t", 16), Cat(Str("u", 11), Str(NL, 1)))>>)
        ELSE IF trending = "wrong" THEN None
        ELSE IF \E i \in 1 .. Len(resp.list) : ItemRaises(resp.list[i])
        THEN None
        ELSE Some(<<Str("t", 28)>>
                  \o [i \in 1 .. Len(resp.list) |-> ItemLine(resp.list[i])]
                  \o << <<>> >>)

\* ---- /coins/markets ----
GoodCoin ==
    [self |-> "dict", name |-> "str", symbol |-> "str",
     current_price |-> "num", price_change_percentage_24h |-> "num",
     change |-> 0, market_cap |-> "num"]

CoinFaults ==
    {<<"self", v>> : v \in {"null", "wrong"}}
    \cup {<<f, v>> : f \in {"name", "symbol", "current_price",
                             "price_change_percentage_24h", "market_cap"},
                     v \in {"missing", "null", "wrong"}}

\* the 24h changes the enumerated coins have
Changes == {-1, 1}

CleanCoinLists ==
    UNION {{[j \in 1 .. k |-> [GoodCoin EXCEPT !.change = vals[j]]] :
                vals \in [1 .. k -> Changes]} : k \in 1 .. MaxCoins}

\* lists with at most one coin that is not the good one
CoinLists ==
    CleanCoinLists
    \cup UNION {{[l EXCEPT ![i] = [l[i] EXCEPT ![fv[1]] = fv[2]]] :
                    i \in 1 .. Len(l), fv \in CoinFaults} :
                 l \in CleanCoinLists}

\* top: "failed" | "empty" | "wrong" (not a list) | "list"
GoodTop == [top |-> "list", list |-> <<GoodCoin>>]

FailedTop == [GoodTop EXCEPT !.top = "failed"]

CleanTop == {FailedTop} \cup {[GoodTop EXCEPT !.list = l] : l \in CleanCoinLists}

TopResponses ==
    CleanTop
    \cup {[GoodTop EXCEPT !.top = v] : v \in {"empty", "wrong"}}
    \cup {[GoodTop EXCEPT !.list = l] : l \in CoinLists}

\* fetch_coingecko_top_coins: "none", "empty" or "list"
fetch_coingecko_top_coins(resp) ==
    CASE HttpGetFailed(resp.top) -> "none"
      [] resp.top = "wrong" -> "none"
      [] OTHER -> resp.top

\* c.get("price_change_percentage_24h", 0) or 0, formatted
CoinChange(c) ==
    CASE c.price_change_percentage_24h \in {"missing", "null"} -> "default"
      [] c.price_change_percentage_24h = "num" -> "data"
      [] OTHER -> "raise"

\* c.get("symbol", "?").upper()
CoinSymbol(c) ==
    CASE c.symbol = "missing" -> "default"
      [] c.symbol = "str" -> "data"
      [] OTHER -> "raise"

\* whether the loop body of the top-10 list raises on one coin
CoinRaises(c) ==
    \/ c.self /= "dict"
    \/ "raise" \in {CoinSymbol(c), EvalLeaf(c.current_price), CoinChange(c),
                    EvalLeaf(c.market_cap)}

\* one line of the top-10 list
CoinLine(c) ==
    CatAll(<<Str("t", 2), TextVal(c.name), Str("t", 2),
             TextVal(c.symbol), Str("t", 4), Num(EvalLeaf(c.current_price), 4),
             Str("t", 8), Str(IF CoinChange(c) = "default" THEN "z" ELSE "d", 4),
             Str("t", 11),
             Num(EvalLeaf(c.market_cap), 3), Str("t", 1)>>)

\* the positions of the coins kept by the filter "... is not None"
WithChange(l) ==
    {i \in 1 .. Len(l) : l[i].price_change_percentage_24h \notin {"missing", "null"}}

\* sorted(..., reverse=True) is stable: the first of the largest comes first,
\* the last of the smallest comes last
TopGainer(l) ==
    CHOOSE i \in WithChange(l) :
        \A j \in WithChange(l) :
            l[j].change < l[i].change \/ (l[j].change = l[i].change /\ i <= j)

TopLoser(l) ==
    CHOOSE i \in WithChange(l) :
        \A j \in WithChange(l) :
            l[j].change > l[i].change \/ (l[j].change = l[i].change /\ j <= i)

\* c['name'], c['symbol'].upper(): a KeyError when the key is absent
MoverRaises(c) == c.name = "missing" \/ c.symbol \in {"missing", "null", "wrong"}

MoverLine(w, c) ==
    CatAll(<<Str("t", w), TextVal(c.name), Str("t", 2), TextVal(c.symbol),
             Str("t", 2), Str("d", 4), Str("t", 1)>>)

\* the top-coins part of build_raw_briefing: the entries it appends to
\* sections, None when it raises
TopSections(resp) ==
    LET top_coins == fetch_coingecko_top_coins(resp)
        l == resp.list
    IN  IF top_coins \in {"none", "empty"}
        THEN Some(<<Cat(Str("t", 11), Cat(Str("u", 11), Str(NL, 1)))>>)
        ELSE IF \E i \in 1 .. Len(l) : CoinRaises(l[i]) THEN None
        ELSE LET lines == <<Str("t", 21)>>
                          \o [i \in 1 .. Len(l) |-> CoinLine(l[i])]
                          \o << <<>> >>
             IN  IF WithChange(l) = {} THEN Some(lines)
                 ELSE IF MoverRaises(l[TopGainer(l)]) \/ MoverRaises(l[TopLoser(l)])
                 THEN None
                 ELSE Some(lines \o
                           <<Join(<<Str("t", 24),
                                    MoverLine(16, l[TopGainer(l)]),
                                    MoverLine(15, l[TopLoser(l)]),
                                    <<>> >>)>>)

\* ---- build_raw_briefing ----
\* an uncaught exception: the interpreter prints the traceback and exits 1
Crash ==
    /\ pc' = "exited"
    /\ exit_code' = [exited |-> TRUE, code |-> 1]
    /\ uncaught' = TRUE

\* the responses a fetch may receive, given the malformed ones seen so far
Allowed(all, clean) == IF faults < MaxFaults THEN all ELSE clean

build_global ==
    /\ pc = "build_global"
    /\ \E resp \in Allowed(GlobalResponses, {GoodGlobal, FailedGlobal}) :
          /\ faults' = IF resp \in {GoodGlobal, FailedGlobal}
                       THEN faults ELSE faults + 1
          /\ net' = Append(net, [host |-> COINGECKO, text |-> <<>>,
                                 ok |-> ~HttpGetFailed(resp.top)])
          /\ IF GlobalSection(resp).is_none
             THEN Crash /\ UNCHANGED sections
             ELSE /\ sections' = <<Cat(Str("t", 39), Str(NL, 1)),
                                   GlobalSection(resp).val>>
                  /\ pc' = "build_trending"
                  /\ UNCHANGED <<exit_code, uncaught>>
    /\ UNCHANGED <<ANTHROPIC_API_KEY, OPENAI_API_KEY, BOT_TOKEN, CHAT_ID,
                   DIGEST_TOPICS, argv, dry_run, raw_text, summary, message,
                   text, chunks, idx, success, ret_to, sent_ok, stdout, orig,
                   gaps>>

build_trending ==
    /\ pc = "build_trending"
    /\ \E resp \in Allowed(TrendingResponses, CleanTrending) :
          /\ faults' = IF resp \in CleanTrending THEN faults ELSE faults + 1
          /\ net' = Append(net, [host |-> COINGECKO, text |-> <<>>,
                                 ok |-> ~HttpGetFailed(resp.top)])
          /\ IF TrendingSections(resp).is_none
             THEN Crash /\ UNCHANGED sections
             ELSE /\ sections' = sections \o TrendingSections(resp).val
                  /\ pc' = "build_top"
                  /\ UNCHANGED <<exit_code, uncaught>>
    /\ UNCHANGED <<ANTHROPIC_API_KEY, OPENAI_API_KEY, BOT_TOKEN, CHAT_ID,
                   DIGEST_TOPICS, argv, dry_run, raw_text, summary, message,
                   text, chunks, idx, success, ret_to, sent_ok, stdout, orig,
                   gaps>>

\* the top-coins part, the watchlist line and the join; back in main, where
\* the list of sections is gone and the joined text is raw_text
build_top ==
    /\ pc = "build_top"
    /\ \E resp \in Allowed(TopResponses, CleanTop) :
          /\ faults' = IF resp \in CleanTop THEN faults ELSE faults + 1
          /\ net' = Append(net, [host |-> COINGECKO, text |-> <<>>,
                                 ok |-> ~HttpGetFailed(resp.top)])
          /\ IF TopSections(resp).is_none
             THEN Crash /\ UNCHANGED <<sections, raw_text>>
             ELSE LET all == sections \o TopSections(resp).val \o
                             (IF DIGEST_TOPICS /= <<>>
                              THEN <<CatAll(<<Str("t", 23), DIGEST_TOPICS,
                                              Str(NL, 1)>>)>>
                              ELSE <<>>)
                  IN  /\ sections' = <<>>
                      /\ raw_text' = Some(Join(all))
                      /\ pc' = "chain_claude"
                      /\ UNCHANGED <<exit_code, uncaught>>
    /\ UNCHANGED <<ANTHROPIC_API_KEY, OPENAI_API_KEY, BOT_TOKEN, CHAT_ID,
                   DIGEST_TOPICS, argv, dry_run, summary, message, text,
                   chunks, idx, success, ret_to, sent_ok, stdout, orig, gaps>>

(***************************************************************************)
(* Summarizers and formatting.                                             *)
(***************************************************************************)
ANTHROPIC == "api.anthropic.com"

OPENAI == "api.openai.com"

\* the digest header (with the date) and footer
DigestHeader == Cat(Str("h", 36), Str(NL, 1))

DigestFooter == CatAll(<<Str(NL, 1), Str("f", 1), Str(NL, 1), Str("f", 33)>>)

max_body_MarginAdded(header, footer) == 4096 - Len_(header) - Len_(footer) + 50

\* the room left for the body
max_body(header, footer) == 4096 - Len_(header) - Len_(footer) - 50

format_digest(s) ==
    LET limit == max_body(DigestHeader, DigestFooter)
        body == IF Len_(s) > limit
                THEN Cat(Take(s, limit), Str("e", 3))
                ELSE Take(s, limit)
    IN  CatAll(<<DigestHeader, Str(NL, 1), body, DigestFooter>>)

\* the header of the raw briefing, with the date and the blank line
RawHeader == Cat(Str("r", 34), Str(NL, 2))

format_no_ai_Untruncated(raw) == Cat(RawHeader, raw)

format_no_ai(raw) == Cat(RawHeader, Take(raw, 3500))

\* the texts a provider may answer with, already stripped: a short one and
\* one longer than a Telegram message
SummaryTexts == {Str("s", 1), Str("s", max_len)}

\* summarize_claude: whether the endpoint is contacted, and the result.  A
\* response whose text blocks are all blank gives the empty string, any
\* error or a response without text blocks gives None.
summarize_claude(key) ==
    IF key = "" THEN {[contacted |-> FALSE, result |-> None]}
    ELSE {[contacted |-> TRUE, result |-> r] :
             r \in {None, Some(<<>>)} \cup {Some(t) : t \in SummaryTexts}}

\* summarize_openai: a blank content gives None
summarize_openai(key) ==
    IF key = "" THEN {[contacted |-> FALSE, result |-> None]}
    ELSE {[contacted |-> TRUE, result |-> r] :
             r \in {None} \cup {Some(t) : t \in SummaryTexts}}

\* the request a summarizer made, if it made one
Logged(host, o) ==
    IF o.contacted
    THEN Append(net, [host |-> host, text |-> o.result.val,
                      ok |-> ~o.result.is_none])
    ELSE net

(***************************************************************************)
(* main.                                                                   *)
(***************************************************************************)
Exit(code) ==
    /\ pc' = "exited"
    /\ exit_code' = [exited |-> TRUE, code |-> code]

\* the flag, the credentials check and the warning about missing AI keys
main_start ==
    /\ pc = "main"
    /\ dry_run' = (\E i \in 1 .. Len(argv) : argv[i] = "--dry-run")
    /\ IF ~dry_run' /\ (BOT_TOKEN = "" \/ CHAT_ID = "")
       THEN Exit(1)
       ELSE pc' = "build_global" /\ UNCHANGED exit_code
    /\ UNCHANGED <<ANTHROPIC_API_KEY, OPENAI_API_KEY, BOT_TOKEN, CHAT_ID,
                   DIGEST_TOPICS, argv, sections, raw_text, summary, message,
                   text, chunks, idx, success, ret_to, sent_ok, net, stdout,
                   uncaught, orig, gaps, faults>>

\* summary = None; if ANTHROPIC_API_KEY: summary = summarize_claude(raw_text)
main_claude ==
    /\ pc = "chain_claude"
    /\ IF ANTHROPIC_API_KEY /= ""
       THEN \E o \in summarize_claude(ANTHROPIC_API_KEY) :
               /\ summary' = o.result
               /\ net' = Logged(ANTHROPIC, o)
       ELSE summary' = None /\ UNCHANGED net
    /\ pc' = "chain_openai"
    /\ UNCHANGED <<ANTHROPIC_API_KEY, OPENAI_API_KEY, BOT_TOKEN, CHAT_ID,
                   DIGEST_TOPICS, argv, dry_run, sections, raw_text, message,
                   text, chunks, idx, success, ret_to, sent_ok, stdout,
                   exit_code, uncaught, orig, gaps, faults>>

TryOpenAI_KeyOnly(s, key) == key /= ""

\* summary is None and OPENAI_API_KEY
TryOpenAI(s, key) == s.is_none /\ key /= ""

main_openai ==
    /\ pc = "chain_openai"
    /\ IF TryOpenAI(summary, OPENAI_API_KEY)
       THEN \E o \in summarize_openai(OPENAI_API_KEY) :
               /\ summary' = o.result
               /\ net' = Logged(OPENAI, o)
       ELSE UNCHANGED <<summary, net>>
    /\ pc' = "chain_local"
    /\ UNCHANGED <<ANTHROPIC_API_KEY, OPENAI_API_KEY, BOT_TOKEN, CHAT_ID,
                   DIGEST_TOPICS, argv, dry_run, sections, raw_text, message,
                   text, chunks, idx, success, ret_to, sent_ok, stdout,
                   exit_code, uncaught, orig, gaps, faults>>

\* if summary is None: summary = format_no_ai(raw_text)
main_local ==
    /\ pc = "chain_local"
    /\ summary' = IF summary.is_none THEN Some(format_no_ai(raw_text.val))
                  ELSE summary
    /\ pc' = "format"
    /\ UNCHANGED <<ANTHROPIC_API_KEY, OPENAI_API_KEY, BOT_TOKEN, CHAT_ID,
                   DIGEST_TOPICS, argv, dry_run, sections, raw_text, message,
                   text, chunks, idx, success, ret_to, sent_ok, net, stdout,
                   exit_code, uncaught, orig, gaps, faults>>

\* message = format_digest(summary)
main_format ==
    /\ pc = "format"
    /\ message' = Some(format_digest(summary.val))
    /\ pc' = IF dry_run THEN "print" ELSE "send"
    /\ UNCHANGED <<ANTHROPIC_API_KEY, OPENAI_API_KEY, BOT_TOKEN, CHAT_ID,
                   DIGEST_TOPICS, argv, dry_run, sections, raw_text, summary,
                   text, chunks, idx, success, ret_to, sent_ok, net, stdout,
                   exit_code, uncaught, orig, gaps, faults>>

\* the dry run prints the message and main returns
main_dry_run ==
    /\ pc = "print"
    /\ stdout' = message
    /\ Exit(0)
    /\ UNCHANGED <<ANTHROPIC_API_KEY, OPENAI_API_KEY, BOT_TOKEN, CHAT_ID,
                   DIGEST_TOPICS, argv, dry_run, sections, raw_text, summary,
                   message, text, chunks, idx, success, ret_to, sent_ok, net,
                   uncaught, orig, gaps, faults>>

\* a call of send_telegram(t) that returns to the position back
Call(t, back) ==
    /\ text' = t
    /\ orig' = t
    /\ gaps' = <<>>
    /\ ret_to' = back
    /\ pc' = "st_enter"

\* send_telegram(message)
main_send ==
    /\ pc = "send"
    /\ Call(message.val, "sent")
    /\ UNCHANGED <<ANTHROPIC_API_KEY, OPENAI_API_KEY, BOT_TOKEN, CHAT_ID,
                   DIGEST_TOPICS, argv, dry_run, sections, raw_text, summary,
                   message, chunks, idx, success, sent_ok, net, stdout,
                   exit_code, uncaught, faults>>

\* the text send_error_notice sends
NoticeText(error_msg) ==
    CatAll(<<Str("w", 22), Str(NL, 1), error_msg, Str(NL, 1), Str("w", 20)>>)

\* the digest was sent: main returns; or it was not: send_error_notice
main_sent ==
    /\ pc = "sent"
    /\ IF sent_ok
       THEN /\ Exit(0)
            /\ UNCHANGED <<text, orig, gaps, ret_to>>
       ELSE /\ Call(NoticeText(Str("m", 30)), "noticed")
            /\ UNCHANGED exit_code
    /\ UNCHANGED <<ANTHROPIC_API_KEY, OPENAI_API_KEY, BOT_TOKEN, CHAT_ID,
                   DIGEST_TOPICS, argv, dry_run, sections, raw_text, summary,
                   message, chunks, idx, success, sent_ok, net, stdout,
                   uncaught, faults>>

ExitAfterNotice_ByDelivery(delivered) == IF delivered THEN 0 ELSE 1

\* the exit status after the error notice, whatever became of the notice
ExitAfterNotice(delivered) == 1

\* send_error_notice returned: sys.exit(1)
main_failed ==
    /\ pc = "noticed"
    /\ Exit(ExitAfterNotice(sent_ok))
    /\ UNCHANGED <<ANTHROPIC_API_KEY, OPENAI_API_KEY, BOT_TOKEN, CHAT_ID,
                   DIGEST_TOPICS, argv, dry_run, sections, raw_text, summary,
                   message, text, chunks, idx, success, ret_to, sent_ok, net,
                   stdout, uncaught, orig, gaps, faults>>

Keys(k) == {"", k}

\* the watchlists the environment may hold
Topics == {<<>>, Str("w", 3500)}

Init ==
    /\ ANTHROPIC_API_KEY \in Keys("sk-ant")
    /\ OPENAI_API_KEY \in Keys("sk-oai")
    /\ BOT_TOKEN \in Keys("token")
    /\ CHAT_ID \in Keys("chat")
    /\ DIGEST_TOPICS \in Topics
    /\ argv \in {<<>>, <<"--dry-run">>}
    /\ pc = "main"
    /\ dry_run = FALSE
    /\ sections = <<>>
    /\ raw_text = None
    /\ summary = None
    /\ message = None
    /\ text = <<>>
    /\ orig = <<>>
    /\ chunks = <<>>
    /\ idx = 1
    /\ success = TRUE
    /\ ret_to = "none"
    /\ sent_ok = FALSE
    /\ net = <<>>
    /\ stdout = None
    /\ exit_code = [exited |-> FALSE, code |-> 0]
    /\ uncaught = FALSE
    /\ gaps = <<>>
    /\ faults = 0

Next ==
    \/ main_start
    \/ build_global
    \/ build_trending
    \/ build_top
    \/ main_claude
    \/ main_openai
    \/ main_local
    \/ main_format
    \/ main_dry_run
    \/ main_send
    \/ st_enter
    \/ st_split
    \/ st_post
    \/ st_return
    \/ main_sent
    \/ main_failed

Spec == Init /\ [][Next]_vars

(***************************************************************************)
(* format_digest on its own: every summary.                                *)
(***************************************************************************)
FormatLens ==
    (1 .. MaxSmall)
    \cup {max_body(DigestHeader, DigestFooter) + d : d \in -MaxSmall .. MaxSmall}
    \cup {max_len + d : d \in -MaxSmall .. MaxSmall}

FormatInputs ==
    {MkText(first, lens) :
        first \in {"s", NL},
        lens \in UNION {[1 .. k -> FormatLens] : k \in 1 .. 2}}
    \cup {<<>>}

InitFormat ==
    /\ ANTHROPIC_API_KEY = ""
    /\ OPENAI_API_KEY = ""
    /\ BOT_TOKEN = "token"
    /\ CHAT_ID = "chat"
    /\ DIGEST_TOPICS = <<>>
    /\ argv = <<>>
    /\ pc = "format"
    /\ dry_run = FALSE
    /\ sections = <<>>
    /\ raw_text = None
    /\ summary \in {Some(t) : t \in FormatInputs}
    /\ message = None
    /\ text = <<>>
    /\ orig = <<>>
    /\ chunks = <<>>
    /\ idx = 1
    /\ success = TRUE
    /\ ret_to = "none"
    /\ sent_ok = FALSE
    /\ net = <<>>
    /\ stdout = None
    /\ exit_code = [exited |-> FALSE, code |-> 0]
    /\ uncaught = FALSE
    /\ gaps = <<>>
    /\ faults = 0

NextFormat == main_format

SpecFormat == InitFormat /\ [][NextFormat]_vars

(***************************************************************************)
(* Properties of format_digest (checked under SpecFormat).                 *)
(***************************************************************************)
\* C3: whatever the summary, the formatted digest is at most 4096 characters
\* long.
C3_DigestWithinProviderMax ==
    ~message.is_none => Len_(message.val) <= 4096

\* a summary longer than the room for the body, formatted and cut
C3_Witness ==
    /\ ~message.is_none
    /\ Len_(summary.val) > 4096
    /\ Has(message.val, "e")
    /\ Len_(message.val) < Len_(summary.val)

\* C4 as claimed: the formatted digest, separator newline and ellipsis
\* counted, is at most 4096 - 50 characters long.
C4_DigestWithinCapMinusMargin ==
    ~message.is_none => Len_(message.val) <= 4096 - 50

(***************************************************************************)
(* Properties of a run of main (checked under Spec).                       *)
(***************************************************************************)
\* positions in net of the requests made to a host
To(host) == {i \in 1 .. Len(net) : net[i].host = host}

\* the deterministic local format was used for the summary
LocalUsed ==
    /\ ~summary.is_none
    /\ ~raw_text.is_none
    /\ Has(summary.val, "r")

\* C5: Claude is asked only when its key is set, OpenAI only when its key is
\* set and Claude gave no text (asked after it, never instead of it when only
\* the OpenAI key is set), the local format is used only when neither gave
\* text, and no provider is asked twice.
C5_ChainOrderedShortCircuit ==
    /\ Cardinality(To(ANTHROPIC)) <= 1
    /\ Cardinality(To(OPENAI)) <= 1
    /\ To(ANTHROPIC) /= {} => ANTHROPIC_API_KEY /= ""
    /\ To(OPENAI) /= {} => OPENAI_API_KEY /= ""
    /\ \A o \in To(OPENAI) : \A a \in To(ANTHROPIC) : a < o /\ ~net[a].ok
    /\ LocalUsed => \A i \in To(ANTHROPIC) \cup To(OPENAI) : ~net[i].ok

\* both keys set: Claude gave nothing, OpenAI was asked next and answered,
\* and its answer became the summary
C5_Witness ==
    /\ pc = "exited"
    /\ ~uncaught
    /\ \E a \in To(ANTHROPIC) : \E o \in To(OPENAI) :
          a < o /\ ~net[a].ok /\ net[o].ok /\ summary.val = net[o].text
    /\ ~LocalUsed

\* what the run put out: the printed text of a dry run, the text posted to
\* Telegram first otherwise
Output ==
    IF ~stdout.is_none THEN {stdout.val}
    ELSE IF Posts /= <<>> THEN {Posts[1].text}
    ELSE {}

NoKeys == ANTHROPIC_API_KEY = "" /\ OPENAI_API_KEY = ""

\* C6 as claimed: without provider keys no LLM endpoint is contacted and the
\* output of the run is format_no_ai of the raw briefing.
C6_OutputIsLocalFormat ==
    NoKeys =>
        /\ To(ANTHROPIC) \cup To(OPENAI) = {}
        /\ \A o \in Output :
              o = Cat(RawHeader, Take(raw_text.val, 3500))

\* C6 amended: without provider keys no LLM endpoint is contacted, the summary
\* is the raw briefing cut to 3500 characters under the raw-briefing header,
\* and the output of the run is that summary, whole, between the digest header
\* and the digest footer.
C6_OutputIsFormattedLocalFormat ==
    NoKeys =>
        /\ To(ANTHROPIC) \cup To(OPENAI) = {}
        /\ ~summary.is_none =>
              summary.val = Cat(RawHeader, Take(raw_text.val, 3500))
        /\ \A o \in Output :
              o = CatAll(<<DigestHeader, Str(NL, 1), RawHeader,
                           Take(raw_text.val, 3500), DigestFooter>>)

\* a run without keys whose raw briefing was longer than 3500 characters and
\* whose output was made
C6_Witness ==
    /\ NoKeys
    /\ pc = "exited"
    /\ Output /= {}
    /\ Len_(raw_text.val) > 3500

CredentialsMissing == BOT_TOKEN = "" \/ CHAT_ID = ""

DryRunAsked == \E i \in 1 .. Len(argv) : argv[i] = "--dry-run"

\* C7 as claimed: without --dry-run and with a credential missing the run
\* exits 1 before any request is made; with --dry-run the same run is not
\* aborted, ends with exit status 0 and posts nothing to Telegram.
C7_CredentialsGate ==
    /\ (CredentialsMissing /\ ~DryRunAsked) =>
          /\ pc \in {"main", "exited"}
          /\ net = <<>>
          /\ pc = "exited" => exit_code.code = 1
    /\ (CredentialsMissing /\ DryRunAsked) =>
          /\ Posts = <<>>
          /\ pc = "exited" => exit_code.code = 0

\* C9: when the digest could not be sent, exactly one error notice with the
\* fixed text is posted after it, nothing is posted again, and the run exits
\* with status 1 whether the notice was delivered or not.
C9_FailedSendReportedOnce ==
    /\ Len(Posts) <= 2
    /\ Len(Posts) >= 1 => Posts[1].text = message.val
    /\ Len(Posts) = 2 =>
          /\ ~Posts[1].ok
          /\ Posts[2].text = NoticeText(Str("m", 30))
    /\ (pc = "exited" /\ Len(Posts) >= 1 /\ ~Posts[1].ok) =>
          /\ Len(Posts) = 2
          /\ exit_code.code = 1

\* the digest failed, the notice was delivered, the run has exited
C9_Witness ==
    /\ pc = "exited"
    /\ Len(Posts) = 2
    /\ ~Posts[1].ok
    /\ Posts[2].ok

\* C10 as claimed: whatever the providers answer, build_raw_briefing does not
\* raise, and the briefing it returns shows "unavailable" or a value.
C10_BriefingNeverRaises ==
    /\ ~uncaught
    /\ ~raw_text.is_none =>
          \E c \in {"u", "z", "d"} : Has(raw_text.val, c)

=============================================================================
